---- MODULE Spec2Model ----
(***************************************************************************)
(* A model of baseclasses (src/baseclasses/core.py): the Field descriptor, *)
(* the class synthesizer BaseMetaClass.__new__ and the instance behaviour  *)
(* of BaseClass (construction, assignment, hashing, comparison).           *)
(*                                                                         *)
(* Field objects live on a heap (heap), because the synthesizer reuses a   *)
(* Field object found among the merged defaults and writes its name and    *)
(* type in place.  Classes live in a registry (classes) in definition      *)
(* order; instances live in objs.  last records the most recent operation  *)
(* with its inputs and its outcome.                                        *)
(***************************************************************************)
EXTENDS Integers, Sequences, FiniteSets, TLC

VARIABLES heap, classes, objs, last

vars == <<heap, classes, objs, last>>

(***************************************************************************)
(* Bounds of the model.                                                    *)
(***************************************************************************)
MaxVal == 1
MaxClasses == 2
MaxDefSize == 3
MaxObjs == 2
MaxSupplied == 3

Vals == 0..MaxVal

(***************************************************************************)
(* Small helpers on sequences and ordered dictionaries.                    *)
(***************************************************************************)
Range(s) == {s[i] : i \in DOMAIN s}

Max2(a, b) == IF a >= b THEN a ELSE b

Min2(a, b) == IF a <= b THEN a ELSE b

NoDup(s) == \A i, j \in DOMAIN s : s[i] = s[j] => i = j

\* Position of the first element of s equal to e (0 when absent).
IndexOf(s, e) ==
    IF \E i \in DOMAIN s : s[i] = e
    THEN CHOOSE i \in DOMAIN s : s[i] = e /\ \A j \in 1..(i - 1) : s[j] # e
    ELSE 0

\* A Python dict keeps insertion order: a sequence of keys with a value map.
Keys(d) == Range(d.keys)

EmptyDict == [keys |-> <<>>, val |-> [k \in {} |-> 0]]

\* d[k] = v: a key already present keeps its position and takes the new value.
DictSet(d, k, v) ==
    [keys |-> IF k \in Keys(d) THEN d.keys ELSE Append(d.keys, k),
     val  |-> [j \in Keys(d) \cup {k} |-> IF j = k THEN v ELSE d.val[j]]]

RECURSIVE DictUpdateFrom(_, _, _)
DictUpdateFrom(d, e, i) ==
    IF i > Len(e.keys) THEN d
    ELSE DictUpdateFrom(DictSet(d, e.keys[i], e.val[e.keys[i]]), e, i + 1)

\* dict.update(e): the entries of e in e's order.
DictUpdate(d, e) == DictUpdateFrom(d, e, 1)

(***************************************************************************)
(* Field (core.py 33-120).                                                 *)
(***************************************************************************)
MISSING == -1

\* Field.__init__: name and type are filled in later by the synthesizer.
NewField(default, default_factory, repr, str, hash, compare) ==
    [name |-> "None", type |-> "None",
     default |-> default, default_factory |-> default_factory,
     repr |-> repr, str |-> str, hash |-> hash, compare |-> compare]

\* Field(default=..., default_factory=...) raises ValueError when both are set.
FieldArgsOK(default, default_factory) ==
    ~(default # MISSING /\ default_factory # "MISSING")

\* InternalStateField: a Field excluded from repr, str, hash and compare.
InternalStateField(default, default_factory) ==
    NewField(default, default_factory, FALSE, FALSE, "False", "False")

\* Field(default=v) and Field(): what the synthesizer wraps a bare default in.
PlainField(default) == NewField(default, "MISSING", TRUE, TRUE, "None", "None")

(***************************************************************************)
(* Class bodies.  A namespace is the sequence of the class body's          *)
(* statements about distinct names: an annotation (ann # ""), an assigned  *)
(* value (kind "bare": v; kind "Field": a Field(...) expression with       *)
(* arguments fs), or both.                                                 *)
(***************************************************************************)
NoArgs == [default |-> MISSING, default_factory |-> "MISSING",
           repr |-> TRUE, str |-> TRUE, hash |-> "None", compare |-> "None"]

Ann(n, t) == [name |-> n, ann |-> t, kind |-> "none", v |-> MISSING, fs |-> NoArgs]

Bare(n, t, v) == [name |-> n, ann |-> t, kind |-> "bare", v |-> v, fs |-> NoArgs]

Fld(n, t, fs) == [name |-> n, ann |-> t, kind |-> "Field", v |-> MISSING, fs |-> fs]

Attr(n, v) == [name |-> n, ann |-> "", kind |-> "bare", v |-> v, fs |-> NoArgs]

BareEntry(v) == [kind |-> "bare", v |-> v]

FieldEntry(ref) == [kind |-> "field", v |-> ref]

\* Running the class body: every Field(...) expression allocates a Field
\* object; the result is the heap and the namespace's assigned values.
RECURSIVE ExecBody(_, _, _, _)
ExecBody(h, ns, i, acc) ==
    IF i > Len(ns) THEN [heap |-> h, values |-> acc]
    ELSE LET d == ns[i] IN
         IF d.kind = "Field"
         THEN ExecBody(Append(h, NewField(d.fs.default, d.fs.default_factory,
                                          d.fs.repr, d.fs.str, d.fs.hash,
                                          d.fs.compare)),
                       ns, i + 1, DictSet(acc, d.name, FieldEntry(Len(h) + 1)))
         ELSE IF d.kind = "bare"
         THEN ExecBody(h, ns, i + 1, DictSet(acc, d.name, BareEntry(d.v)))
         ELSE ExecBody(h, ns, i + 1, acc)

\* namespace.get("__annotations__", {}): the annotated names in body order.
RECURSIVE LocalAnnotations(_, _, _)
LocalAnnotations(ns, i, acc) ==
    IF i > Len(ns) THEN acc
    ELSE LocalAnnotations(ns, i + 1,
             IF ns[i].ann # "" THEN DictSet(acc, ns[i].name, ns[i].ann) ELSE acc)

(***************************************************************************)
(* BaseMetaClass.__new__ (core.py 128-211).                                *)
(***************************************************************************)
\* Lines 145-148: a synthesized base contributes its merged annotations, any
\* other base its own raw annotations; both are kept in ann.
BaseAnnotations(c) == c.ann

\* Lines 150-156: a synthesized base contributes its merged defaults, any other
\* base the class attributes named like its annotations.
BaseDefaults(c) ==
    IF c.synth THEN c.attrs
    ELSE LET names == SelectSeq(c.ann.keys, LAMBDA n : n \in Keys(c.attrs))
         IN  [keys |-> names, val |-> [n \in Range(names) |-> c.attrs.val[n]]]

\* Line 160: frozen = getattr(base, "__frozen__", frozen).
InheritFrozen(base, frozen) == IF base.hasFrozen THEN base.frozen ELSE frozen

\* Lines 141-160: the loop over the bases.
RECURSIVE GatherBases(_, _, _, _)
GatherBases(cs, bases, i, acc) ==
    IF i > Len(bases) THEN acc
    ELSE LET base == cs[bases[i]] IN
         GatherBases(cs, bases, i + 1,
             [all_annotations |-> DictUpdate(acc.all_annotations,
                                             BaseAnnotations(base)),
              all_defaults    |-> DictUpdate(acc.all_defaults,
                                             BaseDefaults(base)),
              frozen          |-> InheritFrozen(base, acc.frozen)])

\* Lines 163-167: every merged annotation whose name the namespace assigns
\* takes the namespace's value as its default.
RECURSIVE OverlayDefaults(_, _, _, _)
OverlayDefaults(all_annotations, values, i, all_defaults) ==
    IF i > Len(all_annotations.keys) THEN all_defaults
    ELSE LET n == all_annotations.keys[i] IN
         OverlayDefaults(all_annotations, values, i + 1,
             IF n \in Keys(values)
             THEN DictSet(all_defaults, n, values.val[n])
             ELSE all_defaults)

\* Lines 173-187: one Field per merged annotation.  A Field object found among
\* the defaults is used as it is; name and type are written into it.
RECURSIVE BuildFields(_, _, _, _, _)
BuildFields(h, all_annotations, all_defaults, i, fields) ==
    IF i > Len(all_annotations.keys) THEN [heap |-> h, fields |-> fields]
    ELSE LET n == all_annotations.keys[i]
             t == all_annotations.val[n]
             reuse == n \in Keys(all_defaults) /\ all_defaults.val[n].kind = "field"
             ref == IF reuse THEN all_defaults.val[n].v ELSE Len(h) + 1
             h1 == IF reuse THEN h
                   ELSE IF n \in Keys(all_defaults)
                   THEN Append(h, PlainField(all_defaults.val[n].v))
                   ELSE Append(h, PlainField(MISSING))
             h2 == [h1 EXCEPT ![ref].name = n, ![ref].type = t]
         IN  BuildFields(h2, all_annotations, all_defaults, i + 1,
                         Append(fields, ref))

\* Mutant of MergeLocalAnnotations: the class's own annotations come first and
\* the inherited ones are laid over them.
MergeLocalAnnotations_LocalFirst(inherited, local) == DictUpdate(local, inherited)

\* Line 162: all_annotations.update(namespace.get("__annotations__", {})).
MergeLocalAnnotations(inherited, local) == DictUpdate(inherited, local)

\* Mutant of ResolveFrozen: a frozen base cannot be thawed by the keyword.
ResolveFrozen_Sticky(kw, frozen) == frozen \/ kw = "True"

\* Line 191: kwargs.get("frozen", frozen).
ResolveFrozen(kw, frozen) == IF kw = "None" THEN frozen ELSE kw = "True"

\* The class the metaclass returns, with the heap after the class statement.
Synthesize(h, cs, bases, ns, kw, pre) ==
    LET body == ExecBody(h, ns, 1, EmptyDict)
        g == GatherBases(cs, bases, 1,
                 [all_annotations |-> EmptyDict, all_defaults |-> EmptyDict,
                  frozen |-> FALSE])
        all_annotations == MergeLocalAnnotations(g.all_annotations,
                                   LocalAnnotations(ns, 1, EmptyDict))
        all_defaults == OverlayDefaults(all_annotations, body.values, 1,
                                        g.all_defaults)
        built == BuildFields(body.heap, all_annotations, all_defaults, 1, <<>>)
    IN  [heap |-> built.heap,
         cls  |-> [bases |-> bases, synth |-> TRUE,
                   ann |-> all_annotations, attrs |-> all_defaults,
                   fields |-> built.fields,
                   hasFrozen |-> TRUE, frozen |-> ResolveFrozen(kw, g.frozen),
                   ns |-> ns, kw |-> kw, pre_init |-> pre]]

(***************************************************************************)
(* type.__new__ (core.py 137, 211) orders the new class's ancestors by C3  *)
(* linearization and refuses bases that have none.                         *)
(***************************************************************************)
RECURSIVE C3Merge(_, _)
C3Merge(seqs, acc) ==
    LET rest == SelectSeq(seqs, LAMBDA s : Len(s) > 0)
        good(i) == \A j \in DOMAIN rest : rest[i][1] \notin Range(Tail(rest[j]))
    IN  IF rest = <<>> THEN [ok |-> TRUE, mro |-> acc]
        ELSE IF ~\E i \in DOMAIN rest : good(i) THEN [ok |-> FALSE, mro |-> acc]
        ELSE LET i == CHOOSE k \in DOMAIN rest :
                          good(k) /\ \A m \in 1..(k - 1) : ~good(m)
                 head == rest[i][1]
             IN  C3Merge([k \in DOMAIN rest |->
                             IF rest[k][1] = head THEN Tail(rest[k]) ELSE rest[k]],
                         Append(acc, head))

Linearize(cs, bases) ==
    C3Merge([i \in DOMAIN bases |-> cs[bases[i]].mro] \o <<bases>>,
            <<Len(cs) + 1>>)

(***************************************************************************)
(* The classes that exist before any user class: BaseClass (core.py 214,   *)
(* returned by the metaclass's short circuit, so without merged maps and   *)
(* without a frozen flag), FrozenBaseClass (core.py 402) and a plain class *)
(* that the metaclass did not make, usable as a further base.              *)
(***************************************************************************)
BaseClassId == 1

FrozenBaseClassId == 2

PlainMixinId == 3

BaseClassDef ==
    [bases |-> <<>>, synth |-> FALSE, ann |-> EmptyDict, attrs |-> EmptyDict,
     fields |-> <<>>, hasFrozen |-> FALSE, frozen |-> FALSE,
     ns |-> <<>>, kw |-> "None", pre_init |-> "pass", mro |-> <<BaseClassId>>]

\* class FrozenBaseClass(BaseClass, frozen=True): pass
FrozenBaseClassDef ==
    LET r == Synthesize(<<>>, <<BaseClassDef>>, <<BaseClassId>>, <<>>, "True", "")
    IN  [mro |-> <<FrozenBaseClassId, BaseClassId>>] @@ r.cls

\* class PlainMixin: m: int = 0
PlainMixinDef ==
    [bases |-> <<>>, synth |-> FALSE,
     ann |-> DictSet(EmptyDict, "m", "int"),
     attrs |-> DictSet(EmptyDict, "m", BareEntry(0)),
     fields |-> <<>>, hasFrozen |-> FALSE, frozen |-> FALSE,
     ns |-> <<Bare("m", "int", 0)>>, kw |-> "None", pre_init |-> "",
     mro |-> <<PlainMixinId>>]

Framework == <<BaseClassDef, FrozenBaseClassDef, PlainMixinDef>>

IsUserClass(c) == c > Len(Framework)

\* The class statement: the registry and the heap after it.
ClassStatement(h, cs, bases, ns, kw, pre) ==
    LET r == Synthesize(h, cs, bases, ns, kw, pre)
        lin == Linearize(cs, bases)
    IN  [heap |-> r.heap,
         classes |-> Append(cs, [mro |-> lin.mro] @@ r.cls)]

\* The class statement raises TypeError for bases without a linearization; the
\* metaclass is BaseMetaClass only when some base derives from BaseClass.
BasesOK(cs, bases) ==
    /\ Linearize(cs, bases).ok
    /\ \E i \in DOMAIN bases : BaseClassId \in Range(cs[bases[i]].mro)

(***************************************************************************)
(* The class bodies the model draws from.                                  *)
(***************************************************************************)
FieldNames == {"x", "y"}

TypeNames == {"int", "str"}

FieldArgs ==
    { [NoArgs EXCEPT !.default = 0, !.str = FALSE, !.compare = "False"],
      [NoArgs EXCEPT !.default_factory = "int", !.hash = "False"] }

Statements ==
    UNION { {Ann(n, t) : t \in TypeNames}
            \cup {Bare(n, "int", MaxVal), Attr(n, 0)}
            \cup {Fld(n, "int", fs) : fs \in FieldArgs} : n \in FieldNames }

Namespaces ==
    { ns \in UNION { [1..k -> Statements] : k \in 0..(MaxDefSize - 1) } :
        \A i, j \in DOMAIN ns : ns[i].name = ns[j].name => i = j }

BaseLists(cs) == UNION { [1..k -> DOMAIN cs] : k \in 1..MaxDefSize }

DefSize(bases, ns, kw) == Len(bases) + Len(ns) + (IF kw = "None" THEN 0 ELSE 1)

(***************************************************************************)
(* State.                                                                  *)
(***************************************************************************)
NoOp == [op |-> "none"]

InitDef ==
    /\ heap = <<>>
    /\ classes = Framework
    /\ objs = <<>>
    /\ last = NoOp

\* A class statement of the program: class C(*bases, frozen=kw): ns
DefineClass ==
    /\ Len(classes) < Len(Framework) + MaxClasses
    /\ \E ns \in Namespaces, kw \in {"None", "True", "False"} :
       \E bases \in BaseLists(classes) :
          /\ DefSize(bases, ns, kw) <= MaxDefSize
          /\ BasesOK(classes, bases)
          /\ LET r == ClassStatement(heap, classes, bases, ns, kw, "")
             IN  /\ heap' = r.heap
                 /\ classes' = r.classes
          /\ UNCHANGED <<objs, last>>

NextDef == DefineClass

SpecDef == InitDef /\ [][NextDef]_vars

(***************************************************************************)
(* Default factories and hooks of the programs the model runs.  A factory  *)
(* is a callable of the user: a builtin type (int), a lambda with a        *)
(* **kwargs catch-all, a named function with one, a lambda without.  The   *)
(* two with a catch-all have the body kwargs.get("y", 0) + 1.              *)
(***************************************************************************)
Factories == {"int", "lambda_kw", "def_kw", "lambda_one"}

\* inspect.isfunction(f): a Python function, not a type or other callable.
IsFunction(f) == f \in {"lambda_kw", "def_kw", "lambda_one"}

\* f.__name__
FunctionName(f) == IF f \in {"lambda_kw", "lambda_one"} THEN "<lambda>" ELSE f

\* inspect.getfullargspec(f).varkw
HasVarkw(f) == f \in {"lambda_kw", "def_kw"}

NoKwargs == [k \in {} |-> 0]

\* What the factory returns for the keyword arguments it is called with.
FactoryBody(f, kw) ==
    CASE f = "int" -> 0
      [] f = "lambda_one" -> 1
      [] OTHER -> (IF "y" \in DOMAIN kw THEN kw["y"] ELSE 0) + 1

\* kwargs["z"] = 100 in BCPreInit.__pre_init__.
PreInitZ == 100

\* __pre_init__ hooks: BaseClass's does nothing; "inject_z" is the user hook
\*     if kwargs.get("y", None) is None: kwargs["z"] = 100
PreInitHook(hook, kw) ==
    IF hook = "inject_z" /\ "y" \notin DOMAIN kw
    THEN [k \in DOMAIN kw \cup {"z"} |-> IF k = "z" THEN PreInitZ ELSE kw[k]]
    ELSE kw

\* self.__pre_init__: the first class of the method resolution order that
\* defines the hook.
HookOf(cs, c) ==
    LET mro == cs[c].mro
        i == CHOOSE k \in DOMAIN mro :
                 /\ cs[mro[k]].pre_init # ""
                 /\ \A m \in 1..(k - 1) : cs[mro[m]].pre_init = ""
    IN  cs[mro[i]].pre_init

(***************************************************************************)
(* BaseClass.__init__ (core.py 215-268).                                   *)
(***************************************************************************)
\* Mutant of ForeignBases: only a class with several bases is refused.
ForeignBases_MultipleOnly(cs, c) ==
    IF Len(cs[c].bases) > 1
    THEN Range(cs[c].bases) \ {BaseClassId, FrozenBaseClassId}
    ELSE {}

\* Line 217: set(self.__class__.__bases__) - {BaseClass, FrozenBaseClass}.
ForeignBases(cs, c) == Range(cs[c].bases) \ {BaseClassId, FrozenBaseClassId}

\* Lines 224-226: zip(args, fields) pairs up to the shorter of the two.
Zipped(args, fields) == Min2(Len(args), Len(fields))

\* Lines 223-237: the keyword map after the positional arguments are folded
\* in, or the first field given both ways.
FoldPositional(args, fields, kwargs) ==
    LET n == Zipped(args, fields)
        clash == {i \in 1..n : fields[i].name \in DOMAIN kwargs}
        names == {fields[i].name : i \in 1..n}
    IN  IF clash # {}
        THEN [ok |-> FALSE,
              field |-> fields[CHOOSE i \in clash : \A j \in clash : i <= j].name,
              kw |-> kwargs]
        ELSE [ok |-> TRUE, field |-> "",
              kw |-> [k \in names \cup DOMAIN kwargs |->
                         IF k \in DOMAIN kwargs THEN kwargs[k]
                         ELSE args[CHOOSE i \in 1..n : fields[i].name = k]]]

\* Mutant of PassesKwargs: any factory with a catch-all is handed the map.
PassesKwargs_AnyCatchAll(f) == HasVarkw(f)

\* Lines 245-249: the factory is handed the keyword map only when it is a
\* function named <lambda> with a **kwargs catch-all.
PassesKwargs(f) == IsFunction(f) /\ FunctionName(f) = "<lambda>" /\ HasVarkw(f)

\* Lines 250-252: the call of the factory, as made.
FactoryCall(n, f, kw) ==
    [field |-> n, factory |-> f,
     mode |-> IF PassesKwargs(f) THEN "kwargs" ELSE "noargs",
     args |-> IF PassesKwargs(f) THEN kw ELSE NoKwargs]

\* Mutant of FieldSource: a field with a default-factory takes the factory's
\* result even when a keyword names it.
FieldSource_FactoryFirst(f, kw) ==
    IF f.default_factory # "MISSING" THEN "factory"
    ELSE IF f.name \in DOMAIN kw THEN "kwargs"
    ELSE IF f.default # MISSING THEN "default"
    ELSE "missing"

\* Lines 242-255: where a field's value comes from.
FieldSource(f, kw) ==
    IF f.name \in DOMAIN kw THEN "kwargs"
    ELSE IF f.default_factory # "MISSING" THEN "factory"
    ELSE IF f.default # MISSING THEN "default"
    ELSE "missing"

\* One step of a construction, as the caller of __init__ could trace it: the
\* call of a hook, the store of a field into self.__dict__, the check for
\* unexpected keywords.
Step(ev, name) == [ev |-> ev, name |-> name]

\* How many times a step of one kind was taken.
Count(steps, ev) == Len(SelectSeq(steps, LAMBDA st : st.ev = ev))

\* Lines 241-259: the loop over the fields.
RECURSIVE ResolveFields(_, _, _, _, _, _)
ResolveFields(fields, kw, i, dict, calls, steps) ==
    IF i > Len(fields)
    THEN [ok |-> TRUE, field |-> "", dict |-> dict, calls |-> calls,
          steps |-> steps]
    ELSE LET f == fields[i]
             source == FieldSource(f, kw)
             set(v) == [k \in DOMAIN dict \cup {f.name} |->
                           IF k = f.name THEN v ELSE dict[k]]
             stored == Append(steps, Step("set", f.name))
         IN  IF source = "kwargs"
             THEN ResolveFields(fields, kw, i + 1, set(kw[f.name]), calls, stored)
             ELSE IF source = "factory"
             THEN LET call == FactoryCall(f.name, f.default_factory, kw)
                  IN  ResolveFields(fields, kw, i + 1,
                          set(FactoryBody(f.default_factory, call.args)),
                          Append(calls, call), stored)
             ELSE IF source = "default"
             THEN ResolveFields(fields, kw, i + 1, set(f.default), calls, stored)
             ELSE [ok |-> FALSE, field |-> f.name, dict |-> dict, calls |-> calls,
                   steps |-> steps]

\* Mutant of UnexpectedKwargs: only one of the unknown keywords is reported.
UnexpectedKwargs_First(kw, dict) ==
    IF DOMAIN kw \ DOMAIN dict = {} THEN {}
    ELSE {CHOOSE k \in DOMAIN kw \ DOMAIN dict : TRUE}

\* Line 261: set(kwargs.keys()) - set(self.__dict__.keys()).
UnexpectedKwargs(kw, dict) == DOMAIN kw \ DOMAIN dict

\* A raise out of __init__: cls(...) returns nothing to the caller.
Failure(why, field, unexpected, kw, dict, calls, steps) ==
    [res |-> "TypeError", why |-> why, field |-> field, unexpected |-> unexpected,
     kw |-> kw, dict |-> dict, calls |-> calls, steps |-> steps,
     pre_ran |-> Count(steps, "pre_init"), post_ran |-> Count(steps, "post_init")]

\* Mutant of CheckAndPostInit: __post_init__ is called before the check for
\* unexpected keywords.
CheckAndPostInit_HookFirst(kw, r) ==
    LET unexpected == UnexpectedKwargs(kw, r.dict)
        hooked == Append(r.steps, Step("post_init", ""))
        steps == Append(hooked, Step("check", ""))
    IN  IF unexpected # {}
        THEN Failure("unexpected", "", unexpected, kw, r.dict, r.calls, steps)
        ELSE [res |-> "ok", why |-> "", field |-> "", unexpected |-> {},
              kw |-> kw, dict |-> r.dict, calls |-> r.calls, steps |-> steps,
              pre_ran |-> Count(steps, "pre_init"),
              post_ran |-> Count(steps, "post_init")]

\* Lines 261-268: the check for unexpected keywords, then self.__post_init__().
CheckAndPostInit(kw, r) ==
    LET unexpected == UnexpectedKwargs(kw, r.dict)
        checked == Append(r.steps, Step("check", ""))
        steps == Append(checked, Step("post_init", ""))
    IN  IF unexpected # {}
        THEN Failure("unexpected", "", unexpected, kw, r.dict, r.calls, checked)
        ELSE [res |-> "ok", why |-> "", field |-> "", unexpected |-> {},
              kw |-> kw, dict |-> r.dict, calls |-> r.calls, steps |-> steps,
              pre_ran |-> Count(steps, "pre_init"),
              post_ran |-> Count(steps, "post_init")]

\* cls(*args, **kwargs): the outcome, with what the call did on the way.
InitCall(h, cs, c, args, kwargs) ==
    LET fields == [i \in DOMAIN cs[c].fields |-> h[cs[c].fields[i]]]
        folded == IF args # <<>> THEN FoldPositional(args, fields, kwargs)
                  ELSE [ok |-> TRUE, field |-> "", kw |-> kwargs]
        kw == PreInitHook(HookOf(cs, c), folded.kw)
        r == ResolveFields(fields, kw, 1, NoKwargs, <<>>,
                           <<Step("pre_init", "")>>)
    IN  IF args # <<>> /\ ForeignBases(cs, c) # {}
        THEN Failure("positional_inheritance", "", {}, kwargs, NoKwargs, <<>>, <<>>)
        ELSE IF ~folded.ok
        THEN Failure("positional_keyword", folded.field, {}, kwargs, NoKwargs,
                     <<>>, <<>>)
        ELSE IF ~r.ok
        THEN Failure("missing", r.field, {}, kw, r.dict, r.calls, r.steps)
        ELSE CheckAndPostInit(kw, r)

(***************************************************************************)
(* Assignment, hashing and comparison (core.py 276-309, 372-399).          *)
(***************************************************************************)
\* self.get_fields()
GetFields(h, cs, o) == [i \in DOMAIN cs[o.cls].fields |-> h[cs[o.cls].fields[i]]]

\* Mutant of SetAttrCall: the frozen flag is not consulted.
SetAttrCall_Unchecked(cs, o, key, value) ==
    [res |-> "ok",
     obj |-> [o EXCEPT !.dict = [k \in DOMAIN o.dict \cup {key} |->
                                    IF k = key THEN value ELSE o.dict[k]]]]

\* __setattr__: the instance after obj.key = value, or FrozenInstanceError.
SetAttrCall(cs, o, key, value) ==
    IF cs[o.cls].frozen
    THEN [res |-> "FrozenInstanceError", obj |-> o]
    ELSE [res |-> "ok",
          obj |-> [o EXCEPT !.dict = [k \in DOMAIN o.dict \cup {key} |->
                                         IF k = key THEN value ELSE o.dict[k]]]]

\* The values of the fields a flag selects, in schema order.
RECURSIVE ValuesWhere(_, _, _, _)
ValuesWhere(fields, o, flag, i) ==
    IF i > Len(fields) THEN <<>>
    ELSE (IF flag[i] THEN <<o.dict[fields[i].name]>> ELSE <<>>)
         \o ValuesWhere(fields, o, flag, i + 1)

\* Mutant of AsHashTuple: every field is hashed.
AsHashTuple_AllFields(h, cs, o) ==
    LET fields == GetFields(h, cs, o)
    IN  ValuesWhere(fields, o, [i \in DOMAIN fields |-> TRUE], 1)

\* _as_hash_tuple: the fields with hash None or true.
AsHashTuple(h, cs, o) ==
    LET fields == GetFields(h, cs, o)
    IN  ValuesWhere(fields, o,
            [i \in DOMAIN fields |-> fields[i].hash = "None" \/ fields[i].hash = "True"],
            1)

\* Mutant of AsCompareTuple: every field is compared.
AsCompareTuple_AllFields(h, cs, o) ==
    LET fields == GetFields(h, cs, o)
    IN  ValuesWhere(fields, o, [i \in DOMAIN fields |-> TRUE], 1)

\* _as_compare_tuple: the fields with compare None or true.
AsCompareTuple(h, cs, o) ==
    LET fields == GetFields(h, cs, o)
    IN  ValuesWhere(fields, o,
            [i \in DOMAIN fields |->
                fields[i].compare = "None" \/ fields[i].compare = "True"],
            1)

\* hash(tuple) of the interpreter, as a polynomial over the elements.
HashModulus == 1024

RECURSIVE TupleHash(_)
TupleHash(t) ==
    IF t = <<>> THEN 1
    ELSE (31 * TupleHash(SubSeq(t, 1, Len(t) - 1)) + t[Len(t)]) % HashModulus

\* __hash__ returns NotImplemented for a class that is not frozen, and hash()
\* raises TypeError for a __hash__ that returns no integer.
HashCall(h, cs, o) ==
    IF ~cs[o.cls].frozen
    THEN [res |-> "TypeError", ret |-> "NotImplemented", value |-> 0]
    ELSE [res |-> "ok", ret |-> "int", value |-> TupleHash(AsHashTuple(h, cs, o))]

CompareOps == {"eq", "lt", "le", "gt", "ge"}

\* operator.eq, lt, le, gt, ge on integers.
Operator(op, a, b) ==
    CASE op = "eq" -> a = b
      [] op = "lt" -> a < b
      [] op = "le" -> a <= b
      [] op = "gt" -> a > b
      [] op = "ge" -> a >= b

\* The interpreter's comparison of two tuples: the first position where they
\* differ decides, and the lengths when there is none.
TupleCompare(op, a, b) ==
    LET n == Min2(Len(a), Len(b))
        diff == {i \in 1..n : a[i] # b[i]}
    IN  IF diff = {} THEN Operator(op, Len(a), Len(b))
        ELSE IF op = "eq" THEN FALSE
        ELSE LET i == CHOOSE k \in diff : \A j \in diff : k <= j
             IN  Operator(op, a[i], b[i])

\* Line 290: other.__class__ is self.__class__.
SameClass(o, other) == other.cls = o.cls

\* _compare(self, other, op).
CompareCall(h, cs, o, other, op) ==
    IF SameClass(o, other)
    THEN IF TupleCompare(op, AsCompareTuple(h, cs, o), AsCompareTuple(h, cs, other))
         THEN "True" ELSE "False"
    ELSE "NotImplemented"

(***************************************************************************)
(* The programs whose instances the model builds: their class statements,  *)
(* after the manner of the repository's tests.                             *)
(***************************************************************************)
Stmt(bases, ns, kw, pre) == [bases |-> bases, ns |-> ns, kw |-> kw, pre |-> pre]

\* class A(BaseClass):
\*     y: int = 1
\*     z: int = Field(default_factory=lambda **kwargs: kwargs.get("y", 0) + 1)
\* class B(A, frozen=True):
\*     x: int
\*     z: int = Field(default_factory=named_function_with_kwargs)
\*     def __pre_init__(self, kwargs): ...
ProgramInit ==
    << Stmt(<<BaseClassId>>,
            <<Bare("y", "int", 1),
              Fld("z", "int", [NoArgs EXCEPT !.default_factory = "lambda_kw"])>>,
            "None", ""),
       Stmt(<<Len(Framework) + 1>>,
            <<Ann("x", "int"),
              Fld("z", "int", [NoArgs EXCEPT !.default_factory = "def_kw"])>>,
            "True", "inject_z") >>

\* class F(FrozenBaseClass):
\*     x: int
\*     y: int = Field(default=0, hash=False)
\*     z: int = Field(default_factory=int, compare=False)
\* class G(F, frozen=False): pass
ProgramCompare ==
    << Stmt(<<FrozenBaseClassId>>,
            <<Ann("x", "int"),
              Fld("y", "int", [NoArgs EXCEPT !.default = 0, !.hash = "False"]),
              Fld("z", "int", [NoArgs EXCEPT !.default_factory = "int",
                                             !.compare = "False"])>>,
            "None", ""),
       Stmt(<<Len(Framework) + 1>>, <<>>, "False", "") >>

Programs == {ProgramInit, ProgramCompare}

RECURSIVE RunProgram(_, _, _)
RunProgram(prog, i, st) ==
    IF i > Len(prog) THEN st
    ELSE RunProgram(prog, i + 1,
             ClassStatement(st.heap, st.classes, prog[i].bases, prog[i].ns,
                            prog[i].kw, prog[i].pre))

(***************************************************************************)
(* The calls a program makes on its classes and instances.                 *)
(***************************************************************************)
\* Keyword names: the fields' names and two names no class has.
ArgNames == {"x", "y", "z", "u", "v"}

\* Attribute names assigned to: x is no field of the first class of ProgramInit.
AttrNames == {"x", "y", "z"}

Kwargs == UNION { [S -> Vals] : S \in SUBSET ArgNames }

Args == UNION { [1..k -> Vals] : k \in 0..MaxSupplied }

\* The argument lists of a call: no more than MaxSupplied arguments in all.
Supplied ==
    { call \in Args \X Kwargs :
        Len(call[1]) + Cardinality(DOMAIN call[2]) <= MaxSupplied }

Init ==
    /\ \E prog \in Programs :
          LET st == RunProgram(prog, 1, [heap |-> <<>>, classes |-> Framework])
          IN  heap = st.heap /\ classes = st.classes
    /\ objs = <<>>
    /\ last = NoOp

\* obj = cls(*args, **kwargs).  A call that raises returns no instance.  The
\* constructor reads nothing of the instances that exist, so the calls that
\* raise are made while there is none.
New ==
    /\ Len(objs) < MaxObjs
    /\ \E c \in DOMAIN classes, call \in Supplied :
          /\ IsUserClass(c)
          /\ LET r == InitCall(heap, classes, c, call[1], call[2])
             IN  /\ r.res = "ok" \/ objs = <<>>
                 /\ last' = [op |-> "init", cls |-> c, args |-> call[1],
                             kwargs |-> call[2]] @@ r
                 /\ objs' = IF r.res = "ok"
                            THEN Append(objs, [cls |-> c, dict |-> r.dict])
                            ELSE objs
    /\ UNCHANGED <<heap, classes>>

\* obj.key = value
SetAttr ==
    /\ \E i \in DOMAIN objs, key \in AttrNames, value \in Vals :
          LET r == SetAttrCall(classes, objs[i], key, value)
          IN  /\ objs' = [objs EXCEPT ![i] = r.obj]
              /\ last' = [op |-> "setattr", obj |-> i, key |-> key,
                          value |-> value, before |-> objs[i], res |-> r.res]
    /\ UNCHANGED <<heap, classes>>

\* hash(obj)
Hash ==
    /\ \E i \in DOMAIN objs :
          last' = [op |-> "hash", obj |-> i] @@ HashCall(heap, classes, objs[i])
    /\ UNCHANGED <<heap, classes, objs>>

\* obj.__eq__(other), __lt__, __le__, __gt__, __ge__
Compare ==
    /\ \E i, j \in DOMAIN objs, op \in CompareOps :
          last' = [op |-> "compare", obj |-> i, other |-> j, cmp |-> op,
                   res |-> CompareCall(heap, classes, objs[i], objs[j], op)]
    /\ UNCHANGED <<heap, classes, objs>>

Next == New \/ SetAttr \/ Hash \/ Compare

Spec == Init /\ [][Next]_vars

(***************************************************************************)
(* Claims about class definition, checked under SpecDef.                   *)
(***************************************************************************)
Schema(c) == [i \in DOMAIN classes[c].fields |-> heap[classes[c].fields[i]]]

SchemaNames(c) == [i \in DOMAIN classes[c].fields |-> Schema(c)[i].name]

SchemaField(c, n) == Schema(c)[IndexOf(SchemaNames(c), n)]

Policy(f) ==
    [default |-> f.default, default_factory |-> f.default_factory,
     repr |-> f.repr, str |-> f.str, hash |-> f.hash, compare |-> f.compare]

SingleBase(c) == IsUserClass(c) /\ Len(classes[c].bases) = 1

ParentOf(c) == classes[c].bases[1]

HasStmt(c, n) == \E i \in DOMAIN classes[c].ns : classes[c].ns[i].name = n

StmtOf(c, n) ==
    classes[c].ns[CHOOSE i \in DOMAIN classes[c].ns : classes[c].ns[i].name = n]

Annotates(c, n) == HasStmt(c, n) /\ StmtOf(c, n).ann # ""

Assigns(c, n) == HasStmt(c, n) /\ StmtOf(c, n).kind # "none"

Inherited(c, n) == n \in Range(SchemaNames(ParentOf(c)))

\* What a statement declares about its field: the Field(...) arguments, or a
\* plain default, or nothing at all.
Declared(d) == IF d.kind = "Field" THEN d.fs ELSE [NoArgs EXCEPT !.default = d.v]

\* The names a class annotates that its base's schema does not have, in the
\* order of the class body.
NewNames(c) ==
    LET annotated == SelectSeq(classes[c].ns, LAMBDA d : d.ann # "")
        fresh == SelectSeq(annotated, LAMBDA d : ~Inherited(c, d.name))
    IN  [i \in DOMAIN fresh |-> fresh[i].name]

FirstDeclarationOrder(c) ==
    SchemaNames(c) = SchemaNames(ParentOf(c)) \o NewNames(c)

\* C1 as stated: in a chain of class definitions the schema is in
\* first-declaration order, and a field a subclass re-declares, with or
\* without a new default, carries the subclass's declaration: its default,
\* default-factory and flags.
C1_AsStated ==
    \A c \in DOMAIN classes : SingleBase(c) =>
        /\ FirstDeclarationOrder(c)
        /\ \A n \in Range(SchemaNames(c)) :
              (Inherited(c, n) /\ Annotates(c, n)) =>
                  Policy(SchemaField(c, n)) = Declared(StmtOf(c, n))

\* C1 as amended: in a chain of class definitions the schema is in
\* first-declaration order (inherited fields at their base positions, then the
\* newly annotated names in body order); a field carries the subclass's default,
\* default-factory and flags exactly when the class body assigns it a value,
\* and otherwise keeps the base's (a new field without a value is required);
\* in the schema as built by the class statement its declared type is the
\* subclass's annotation when there is one, else the base's.
C1_FieldMerge ==
    \A c \in DOMAIN classes : SingleBase(c) =>
        /\ FirstDeclarationOrder(c)
        /\ \A n \in Range(SchemaNames(c)) :
              /\ Policy(SchemaField(c, n)) =
                    IF Assigns(c, n) THEN Declared(StmtOf(c, n))
                    ELSE IF Inherited(c, n)
                    THEN Policy(SchemaField(ParentOf(c), n))
                    ELSE NoArgs
              /\ c = Len(classes) =>
                    SchemaField(c, n).type =
                        IF Annotates(c, n) THEN StmtOf(c, n).ann
                        ELSE SchemaField(ParentOf(c), n).type

\* C1 witness: a subclass of a user class whose body first annotates a new
\* field and then re-declares the base's first field with a value; the
\* re-declared field is still first and the new field last.
C1_Witness ==
    \E c \in DOMAIN classes :
        /\ SingleBase(c) /\ IsUserClass(ParentOf(c))
        /\ Len(classes[c].ns) = 2
        /\ ~Inherited(c, classes[c].ns[1].name)
        /\ classes[c].ns[1].ann # ""
        /\ Inherited(c, classes[c].ns[2].name)
        /\ Annotates(c, classes[c].ns[2].name)
        /\ Assigns(c, classes[c].ns[2].name)
        /\ SchemaNames(c)[1] = classes[c].ns[2].name
        /\ SchemaNames(c)[Len(SchemaNames(c))] = classes[c].ns[1].name

\* The base whose frozen flag a class without a frozen keyword takes, by the
\* two readings: the first base that has a flag, and the last one.
FlaggedBases(c) == SelectSeq(classes[c].bases, LAMBDA b : classes[b].hasFrozen)

FrozenFrom(c, pick) ==
    IF classes[c].kw # "None" THEN classes[c].kw = "True"
    ELSE IF FlaggedBases(c) = <<>> THEN FALSE
    ELSE classes[pick].frozen

\* C2 as stated: the frozen flag is the frozen keyword when given, otherwise
\* the flag of the first base in base-list order that defines one, otherwise
\* the class is mutable.
C2_AsStated ==
    \A c \in DOMAIN classes : IsUserClass(c) =>
        classes[c].frozen =
            FrozenFrom(c, IF FlaggedBases(c) = <<>> THEN c ELSE FlaggedBases(c)[1])

\* C2 as amended: the frozen flag is the frozen keyword when given, otherwise
\* the flag of the last base in base-list order that defines one, otherwise
\* the class is mutable.
C2_FrozenResolution ==
    \A c \in DOMAIN classes : IsUserClass(c) =>
        classes[c].frozen =
            FrozenFrom(c, IF FlaggedBases(c) = <<>> THEN c
                          ELSE FlaggedBases(c)[Len(FlaggedBases(c))])

\* C2 witness: a class without a frozen keyword whose bases carry different
\* flags, and a class whose keyword overrides the flag of its bases.
C2_Witness ==
    /\ \E c \in DOMAIN classes :
          /\ IsUserClass(c) /\ classes[c].kw = "None"
          /\ \E i, j \in DOMAIN FlaggedBases(c) :
                classes[FlaggedBases(c)[i]].frozen # classes[FlaggedBases(c)[j]].frozen
    /\ \E c \in DOMAIN classes :
          /\ IsUserClass(c) /\ classes[c].kw = "False"
          /\ FlaggedBases(c) # <<>>
          /\ classes[FlaggedBases(c)[Len(FlaggedBases(c))]].frozen

(***************************************************************************)
(* Claims about instances, checked under Spec.                             *)
(***************************************************************************)
FieldsOf(c) == Schema(c)

FieldNamesOf(c) == Range(SchemaNames(c))

IsInit == last.op = "init"

\* C3: construction sets every field, on a frozen class as on a mutable one
\* (the frozen flag never makes it fail); afterwards an assignment to a field
\* of an instance of a frozen class raises FrozenInstanceError and leaves the
\* instance as it was, and an assignment to a field of an instance of a
\* mutable class sets that field and leaves the other attributes as they were.
C3_Mutation ==
    /\ IsInit =>
          /\ last.res \in {"ok", "TypeError"}
          /\ last.res = "ok" =>
                /\ objs # <<>>
                /\ objs[Len(objs)] = [cls |-> last.cls, dict |-> last.dict]
                /\ FieldNamesOf(last.cls) \subseteq DOMAIN last.dict
    /\ (last.op = "setattr" /\ last.key \in FieldNamesOf(last.before.cls)) =>
          LET now == objs[last.obj] IN
          IF classes[last.before.cls].frozen
          THEN last.res = "FrozenInstanceError" /\ now = last.before
          ELSE /\ last.res = "ok"
               /\ now.cls = last.before.cls
               /\ now.dict[last.key] = last.value
               /\ DOMAIN now.dict = DOMAIN last.before.dict
               /\ \A k \in DOMAIN now.dict \ {last.key} :
                     now.dict[k] = last.before.dict[k]

\* C3 witness: an instance of a frozen class was constructed, and an
\* assignment of a new value to one of its fields was rejected.
C3_Witness ==
    /\ last.op = "setattr"
    /\ classes[last.before.cls].frozen
    /\ last.key \in FieldNamesOf(last.before.cls)
    /\ last.before.dict[last.key] # last.value
    /\ last.res = "FrozenInstanceError"

\* The fields that nothing can fill: no keyword, no factory, no default.
Unfillable(c, kw) ==
    {i \in DOMAIN FieldsOf(c) :
        /\ FieldsOf(c)[i].name \notin DOMAIN kw
        /\ FieldsOf(c)[i].default_factory = "MISSING"
        /\ FieldsOf(c)[i].default = MISSING}

\* The factory calls made for field n.
CallsFor(n) == SelectSeq(last.calls, LAMBDA call : call.field = n)

\* The value precedence gives field i: the keyword map's, else the factory's
\* result, else the default.
ByPrecedence(c, kw, i) ==
    LET f == FieldsOf(c)[i] IN
    IF f.name \in DOMAIN kw THEN kw[f.name]
    ELSE IF f.default_factory # "MISSING"
    THEN FactoryBody(f.default_factory, CallsFor(f.name)[1].args)
    ELSE f.default

\* C4: each field, in schema order, takes the value the keyword map as left by
\* pre_init has for it (no factory call is made then); else the result of its
\* default-factory, called once; else its default; else construction raises
\* TypeError 'missing required argument' for that field, the fields before it
\* being set and none after.
C4_Precedence ==
    (IsInit /\ last.pre_ran = 1) =>
        LET c == last.cls
            fields == FieldsOf(c)
            stop == IF Unfillable(c, last.kw) = {} THEN Len(fields) + 1
                    ELSE CHOOSE i \in Unfillable(c, last.kw) :
                             \A j \in Unfillable(c, last.kw) : i <= j
        IN  /\ DOMAIN last.dict = {fields[i].name : i \in 1..(stop - 1)}
            /\ \A i \in 1..(stop - 1) :
                  /\ Len(CallsFor(fields[i].name)) =
                        IF fields[i].name \notin DOMAIN last.kw
                           /\ fields[i].default_factory # "MISSING"
                        THEN 1 ELSE 0
                  /\ last.dict[fields[i].name] = ByPrecedence(c, last.kw, i)
            /\ Len(last.calls) =
                  Cardinality({i \in 1..(stop - 1) :
                                  Len(CallsFor(fields[i].name)) = 1})
            /\ stop <= Len(fields) =>
                  /\ last.res = "TypeError" /\ last.why = "missing"
                  /\ last.field = fields[stop].name
            /\ stop > Len(fields) => last.why # "missing"

\* C4 witness: a construction that filled one field from the keyword map, one
\* from a default-factory and one from a plain default.
C4_Witness ==
    /\ IsInit /\ last.res = "ok"
    /\ \E i, j, k \in DOMAIN FieldsOf(last.cls) :
          /\ FieldsOf(last.cls)[i].name \in DOMAIN last.kw
          /\ FieldsOf(last.cls)[j].name \notin DOMAIN last.kw
          /\ FieldsOf(last.cls)[j].default_factory # "MISSING"
          /\ FieldsOf(last.cls)[k].name \notin DOMAIN last.kw
          /\ FieldsOf(last.cls)[k].default # MISSING

\* C5 as stated: a factory that accepts a keyword catch-all, whatever kind of
\* callable it is, is called with the full keyword map as left by pre_init,
\* and a factory without a catch-all with no arguments.
C5_AsStated ==
    IsInit =>
        \A i \in DOMAIN last.calls :
            IF HasVarkw(last.calls[i].factory)
            THEN last.calls[i].mode = "kwargs" /\ last.calls[i].args = last.kw
            ELSE last.calls[i].mode = "noargs" /\ last.calls[i].args = NoKwargs

\* C5 as amended: a factory is called with the full keyword map as left by
\* pre_init (not with the values resolved for earlier fields) exactly when it
\* is a lambda with a keyword catch-all; every other factory (a named function
\* with a catch-all, a builtin type, a lambda without one) is called with no
\* arguments; the field takes what the call returns.
C5_LambdaCatchAll ==
    IsInit =>
        \A i \in DOMAIN last.calls :
            LET call == last.calls[i] IN
            /\ call.factory = "lambda_kw" =>
                  /\ call.mode = "kwargs" /\ call.args = last.kw
                  /\ call.field \in DOMAIN last.dict =>
                        last.dict[call.field] = FactoryBody("lambda_kw", last.kw)
            /\ call.factory \in {"def_kw", "int", "lambda_one"} =>
                  /\ call.mode = "noargs" /\ call.args = NoKwargs
                  /\ call.field \in DOMAIN last.dict =>
                        last.dict[call.field] = FactoryBody(call.factory, NoKwargs)

\* C5 witness: a lambda with a catch-all was called while an earlier field had
\* been resolved from its default: the keyword map it got lacks that field,
\* and its result differs from what the resolved values would have given.
C5_Witness ==
    /\ IsInit /\ last.res = "ok"
    /\ \E i \in DOMAIN last.calls :
          /\ last.calls[i].factory = "lambda_kw"
          /\ last.calls[i].mode = "kwargs"
          /\ "y" \in DOMAIN last.dict /\ "y" \notin DOMAIN last.calls[i].args
          /\ last.dict[last.calls[i].field] # FactoryBody("lambda_kw", last.dict)

\* The keyword keys that name no field of the class.
NotFields(c, kw) == {k \in DOMAIN kw : \A i \in DOMAIN FieldsOf(c) : FieldsOf(c)[i].name # k}

\* C6: once every field is resolved, a keyword map with keys that name no
\* field makes construction raise TypeError 'unexpected arguments' with the
\* set of all those keys; with none, and no required field missing,
\* construction succeeds.
C6_Unexpected ==
    (IsInit /\ last.pre_ran = 1 /\ Unfillable(last.cls, last.kw) = {}) =>
        IF NotFields(last.cls, last.kw) # {}
        THEN /\ last.res = "TypeError" /\ last.why = "unexpected"
             /\ last.unexpected = NotFields(last.cls, last.kw)
        ELSE last.res = "ok" /\ last.unexpected = {}

\* C6 witness: a construction with every field resolved and two keywords that
\* name no field was refused, reporting both.
C6_Witness ==
    /\ IsInit /\ last.why = "unexpected"
    /\ DOMAIN last.dict = FieldNamesOf(last.cls)
    /\ Cardinality(last.unexpected) = 2

\* The names of the fields whose flag (hash or compare) is true or unset, in
\* schema order.
Participating(c, flagOf(_)) ==
    LET chosen == SelectSeq(FieldsOf(c), LAMBDA f : flagOf(f) \in {"None", "True"})
    IN  [i \in DOMAIN chosen |-> chosen[i].name]

HashFlag(f) == f.hash

CompareFlag(f) == f.compare

HashNames(c) == Participating(c, HashFlag)

CompareNames(c) == Participating(c, CompareFlag)

\* C7: hashing an instance of a mutable class fails; hashing an instance of a
\* frozen class gives the hash of the tuple of the values of the fields whose
\* hash flag is true or unset, in schema order; so two instances of a frozen
\* class that agree on those fields have the same hash.
C7_Hash ==
    /\ last.op = "hash" =>
          LET o == objs[last.obj]
              names == HashNames(o.cls)
          IN  IF classes[o.cls].frozen
              THEN /\ last.res = "ok"
                   /\ last.value = TupleHash([i \in DOMAIN names |-> o.dict[names[i]]])
              ELSE last.res = "TypeError"
    /\ \A i, j \in DOMAIN objs :
          (/\ objs[i].cls = objs[j].cls
           /\ classes[objs[i].cls].frozen
           /\ \A n \in Range(HashNames(objs[i].cls)) :
                 objs[i].dict[n] = objs[j].dict[n])
          => HashCall(heap, classes, objs[i]) = HashCall(heap, classes, objs[j])

\* C7 witness: an instance of a frozen class with a hash=False field was
\* hashed, and another instance of the class differs from it in that field
\* only.
C7_Witness ==
    /\ last.op = "hash" /\ last.res = "ok"
    /\ Len(HashNames(objs[last.obj].cls)) < Len(FieldsOf(objs[last.obj].cls))
    /\ Len(HashNames(objs[last.obj].cls)) >= 2
    /\ \E j \in DOMAIN objs :
          /\ objs[j].cls = objs[last.obj].cls
          /\ objs[j].dict # objs[last.obj].dict
          /\ \A n \in Range(HashNames(objs[j].cls)) :
                objs[j].dict[n] = objs[last.obj].dict[n]

\* Lexicographic order on the participating fields: the first field where the
\* two instances differ is smaller in a.
LexLess(names, a, b) ==
    \E k \in DOMAIN names :
        /\ a.dict[names[k]] < b.dict[names[k]]
        /\ \A j \in 1..(k - 1) : a.dict[names[j]] = b.dict[names[j]]

LexEqual(names, a, b) == \A k \in DOMAIN names : a.dict[names[k]] = b.dict[names[k]]

Lexicographic(op, names, a, b) ==
    CASE op = "eq" -> LexEqual(names, a, b)
      [] op = "lt" -> LexLess(names, a, b)
      [] op = "le" -> LexLess(names, a, b) \/ LexEqual(names, a, b)
      [] op = "gt" -> LexLess(names, b, a)
      [] op = "ge" -> LexLess(names, b, a) \/ LexEqual(names, a, b)

\* C8: between two instances of the same exact class, ==, <, <=, > and >= are
\* the lexicographic comparison of the values of the fields whose compare flag
\* is true or unset, in schema order; with an operand of another exact class,
\* a subclass or base class included, each of them returns NotImplemented.
C8_Compare ==
    last.op = "compare" =>
        LET a == objs[last.obj]
            b == objs[last.other]
        IN  IF a.cls = b.cls
            THEN last.res =
                    IF Lexicographic(last.cmp, CompareNames(a.cls), a, b)
                    THEN "True" ELSE "False"
            ELSE last.res = "NotImplemented"

\* C8 witness: two instances of one class that differ only in a compare=False
\* field were compared with == and found equal, the class having two fields
\* that take part in comparisons.
C8_Witness ==
    /\ last.op = "compare" /\ last.cmp = "eq" /\ last.res = "True"
    /\ objs[last.obj].cls = objs[last.other].cls
    /\ objs[last.obj].dict # objs[last.other].dict
    /\ Len(CompareNames(objs[last.obj].cls)) >= 2

\* C9 as stated: on a class whose direct bases are framework classes only, the
\* i-th positional argument becomes the value of the i-th schema field, and
\* every positional argument supplied is bound to a field.
C9_AsStated ==
    (/\ IsInit /\ last.res = "ok" /\ last.args # <<>>
     /\ HookOf(classes, last.cls) = "pass")
    => /\ Len(last.args) <= Len(FieldsOf(last.cls))
       /\ \A i \in DOMAIN last.args :
             i <= Len(FieldsOf(last.cls)) =>
                 last.dict[FieldsOf(last.cls)[i].name] = last.args[i]

\* The fields that the positional arguments fill.
FilledPositionally(c, args) ==
    {FieldsOf(c)[i].name : i \in DOMAIN args \cap DOMAIN FieldsOf(c)}

PositionalRefusals == {"positional_inheritance", "positional_keyword"}

\* C10: a construction with positional arguments raises TypeError, before
\* pre_init runs and before any field is set, when the class has a direct base
\* other than BaseClass and FrozenBaseClass (a subclass of one user class
\* included) or when a field filled positionally is also given by keyword; on
\* a class with framework bases only and no such conflict it is not refused
\* for these reasons.
C10_PositionalRefused ==
    IsInit =>
        LET foreign == \E i \in DOMAIN classes[last.cls].bases :
                           classes[last.cls].bases[i]
                               \notin {BaseClassId, FrozenBaseClassId}
            clash == FilledPositionally(last.cls, last.args)
                         \cap DOMAIN last.kwargs # {}
        IN  IF last.args # <<>> /\ (foreign \/ clash)
            THEN /\ last.res = "TypeError"
                 /\ last.why \in PositionalRefusals
                 /\ foreign => last.why = "positional_inheritance"
                 /\ last.pre_ran = 0
                 /\ last.dict = NoKwargs
                 /\ last.calls = <<>>
            ELSE last.why \notin PositionalRefusals

\* C10 witness: a positional construction on a subclass of a user class was
\* refused although no keyword repeats a positional field.
C10_Witness ==
    /\ IsInit /\ last.args # <<>>
    /\ last.why = "positional_inheritance"
    /\ IsUserClass(classes[last.cls].bases[1])
    /\ Len(classes[last.cls].bases) = 1
    /\ FilledPositionally(last.cls, last.args) \cap DOMAIN last.kwargs = {}

(***************************************************************************)
(* The order of the steps of a construction.                               *)
(***************************************************************************)
\* The positions of the steps of one kind in the trace of the last call.
StepsAt(ev) == {i \in DOMAIN last.steps : last.steps[i].ev = ev}

\* The fields stored so far at position i of the trace.
StoredBefore(i) ==
    {last.steps[j].name : j \in {k \in 1..(i - 1) : last.steps[k].ev = "set"}}

\* post_init, when it runs, runs once, as the last step, after the check for
\* unexpected keywords passed and after every field of the schema was stored;
\* it runs in the constructions that succeed and in no other, and a
\* construction that fails returns no instance (the calls that raise are made
\* on the empty store, and leave it empty).
PostInitLast ==
    /\ Count(last.steps, "post_init") = (IF last.res = "ok" THEN 1 ELSE 0)
    /\ \A i \in StepsAt("post_init") :
          /\ i = Len(last.steps)
          /\ StepsAt("check") = {i - 1}
          /\ StoredBefore(i) = FieldNamesOf(last.cls)
          /\ DOMAIN last.kw \subseteq DOMAIN last.dict
    /\ IF last.res = "ok"
       THEN objs # <<>> /\ objs[Len(objs)] = [cls |-> last.cls, dict |-> last.dict]
       ELSE objs = <<>>

\* pre_init, when it runs, is the first step, before any field is stored, and
\* the fields a keyword names are stored from the map as the hook left it.
PreInitFirst ==
    /\ \A i \in StepsAt("pre_init") : i = 1
    /\ Count(last.steps, "pre_init") = 1 =>
          \A n \in DOMAIN last.dict \cap DOMAIN last.kw : last.dict[n] = last.kw[n]

\* C11 as stated: in every construction pre_init runs exactly once, before any
\* field is stored; post_init runs exactly once after every field is stored
\* and the check for unexpected keywords passed; a construction that fails
\* runs no post_init and returns no instance.
C11_AsStated ==
    IsInit =>
        /\ Count(last.steps, "pre_init") = 1
        /\ PreInitFirst
        /\ PostInitLast

\* C11 as amended: pre_init runs exactly once, as the first step, in every
\* construction that gets past the checks of the positional arguments, and not
\* at all in one refused for its positional arguments; the fields are then
\* stored from the keyword map as the hook left it; post_init runs exactly
\* once, last, after every field of the schema is stored and the check for
\* unexpected keywords passed; a construction that fails at any step runs no
\* post_init and returns no instance.
C11_StepOrder ==
    IsInit =>
        /\ Count(last.steps, "pre_init") =
              (IF last.why \in PositionalRefusals THEN 0 ELSE 1)
        /\ PreInitFirst
        /\ PostInitLast

\* C11 witness: a construction that succeeded on a class whose pre_init hook
\* added to the keyword map a field the caller did not give; the field holds
\* the hook's value, and post_init ran after the stores and the check.
C11_Witness ==
    /\ IsInit /\ last.res = "ok"
    /\ HookOf(classes, last.cls) = "inject_z"
    /\ "z" \notin DOMAIN last.kwargs /\ last.args = <<>>
    /\ last.dict["z"] = PreInitZ
    /\ last.steps[1].ev = "pre_init"
    /\ last.steps[Len(last.steps)].ev = "post_init"
    /\ Count(last.steps, "set") = Cardinality(FieldNamesOf(last.cls))

(***************************************************************************)
(* The attributes an instance holds.                                       *)
(***************************************************************************)
\* C12 as stated: after a successful construction, and after any later
\* assignments to attributes of the instance, accepted or rejected, on a
\* mutable or a frozen class, the names stored on the instance are exactly the
\* names of the fields of its class's schema.
C12_AsStated ==
    \A i \in DOMAIN objs : DOMAIN objs[i].dict = FieldNamesOf(objs[i].cls)

(***************************************************************************)
(* The schema of a class once it is defined, checked under SpecDef.        *)
(***************************************************************************)
\* C13 as stated: the schema of a class that is defined never changes; a step
\* of the program (the definition of a subclass that inherits a field,
\* re-annotates it or overrides it) leaves every entry of the schema of every
\* class defined before it (name, type, default, default-factory, flags,
\* order) and its frozen flag as they were.
C13_AsStated ==
    [][\A c \in DOMAIN classes :
          /\ [i \in DOMAIN classes'[c].fields |-> heap'[classes'[c].fields[i]]]
                = Schema(c)
          /\ classes'[c].frozen = classes[c].frozen]_vars

(***************************************************************************)
(* Hashing against comparison, checked under Spec.                         *)
(***************************************************************************)
\* C14 as stated: a field of an instance whose hash flag is unset is in the
\* hash tuple exactly when it is in the compare tuple; so, whatever the flags of the
\* fields of a frozen class (compare=False with hash unset included), two of
\* its instances that compare equal have the same hash.
C14_AsStated ==
    /\ \A o \in DOMAIN objs : \A i \in DOMAIN FieldsOf(objs[o].cls) :
          LET f == FieldsOf(objs[o].cls)[i] IN
          f.hash = "None" =>
              (f.name \in Range(HashNames(objs[o].cls))
                  <=> f.name \in Range(CompareNames(objs[o].cls)))
    /\ \A i, j \in DOMAIN objs :
          (/\ classes[objs[i].cls].frozen
           /\ CompareCall(heap, classes, objs[i], objs[j], "eq") = "True")
          => HashCall(heap, classes, objs[i]) = HashCall(heap, classes, objs[j])

====
